---- MODULE Spec2Model ----
(***************************************************************************)
(* Model of fbcli (fbcli/cli.py, fbcli/fb.py, fbcli/editor.py): the REPL   *)
(* of main(), the commands it dispatches, the session state they mutate    *)
(* (current case, current user, last search, History), the scratch draft   *)
(* file of the editor module and the retrying passthrough of FBClient.     *)
(*                                                                         *)
(* A command is one action.  Its handler is translated statement by        *)
(* statement into operators that thread a run record r: the statements     *)
(* already executed (r.trace), the values of the globals as the handler    *)
(* has left them so far, and r.out, "run" while no exception is in flight. *)
(* Every remote call, prompt and editor invocation is a Step that may      *)
(* raise; which one raises is the fault the action draws.                  *)
(***************************************************************************)
EXTENDS Integers, Sequences, FiniteSets, TLC

VARIABLES
    CURRENT_CASE,   \* cli.CURRENT_CASE: the raw case held by the FBCase, or NoCase
    CURRENT_USER,   \* cli.CURRENT_USER: "me" or "none"
    LAST_SEARCH,    \* cli.LAST_SEARCH
    HISTORY,        \* FBShortCase.HISTORY._history: case ids, newest first
    draft,          \* os.path.exists(editor.FNAME)
    pc,             \* position in main()
    last,           \* what the command just executed did (cleared at the next prompt)
    retry,          \* one FBClient passthrough call in progress
    CACHE,          \* FBPerson.CACHE: the FBPerson objects made so far (SpecPersons)
    COMMANDS,       \* cli.COMMANDS: the names registered by @command
    ALIASES         \* cli.ALIASES: name -> Alias

vars == <<CURRENT_CASE, CURRENT_USER, LAST_SEARCH, HISTORY, draft, pc, last, retry,
          CACHE, COMMANDS, ALIASES>>

-----------------------------------------------------------------------------
(* Bounds *)

MaxCase == 3        \* case ids 1..MaxCase exist on the tracker
MaxAttempts == 4    \* attempts of one passthrough call the model follows
MaxPerson == 2      \* person ids 1..MaxPerson exist on the tracker
MaxCache == 5       \* FBPerson objects the model follows in FBPerson.CACHE
MaxArgs == 2        \* arguments typed after a command name
MaxLines == 3       \* lines of a draft text
MaxHits == 3        \* <case> elements of one answer to a search
MaxEvents == 2      \* events of a case
MaxUrls == 2        \* plain URLs, and anchor links, of one event

-----------------------------------------------------------------------------
(* Remote tracker: what the black box may answer *)

CaseIds == 1..MaxCase

Operations == {"edit", "assign", "resolve", "reactivate", "close", "reopen"}

\* operation sets the tracker reports: an active, a resolved and a closed case
ReportedOps ==
    { {"edit", "assign", "resolve"},
      {"edit", "assign", "reactivate", "close"},
      {"reopen"} }

NoCase == [id |-> 0, ops |-> {}]

\* ixBugParent of a case: case 1 is a top-level case, case n+1 is a subcase of n
ParentOf(id) == id - 1

\* answer to FB.search(q=ixBug): the count attribute and the case's operations
OkResponse == [count |-> 1, ops |-> {"edit", "assign", "resolve"}]

FetchResponses ==
    {[count |-> 0, ops |-> {}], [count |-> 2, ops |-> {}]}
        \cup {[count |-> 1, ops |-> o] : o \in ReportedOps}

\* sProject of a <case>, and str <= str on these names
Projects == {"a", "b"}

str_le(p, q) == p = q \/ (p = "a" /\ q = "b")

\* ixPriority of a <case>
Priorities == {1, 2}

\* a <case> of an answer to FB.search(q=...) / FB.listCases
Hits == [id : CaseIds, priority_id : Priorities, project : Projects]

\* the answer the commands of the REPL are given: case 2 is listed twice
SearchResponses ==
    {<<[id |-> 2, priority_id |-> 2, project |-> "a"],
       [id |-> 1, priority_id |-> 2, project |-> "b"],
       [id |-> 2, priority_id |-> 1, project |-> "b"]>>}

NoSearch == [set |-> FALSE, shortcases |-> <<>>]

-----------------------------------------------------------------------------
(* COMMANDS and ALIASES *)

\* the names the @command decorators register
RegisteredCommands ==
    {"logon", "logoff", "help", "whoami", "show", "header", "parent", "reload",
     "close", "reactivate", "resolve", "reopen", "duplicate", "statuses",
     "assign", "comment", "reply", "search", "top", "browse", "new",
     "projects", "areas", "milestones", "people", "attachments", "attachment",
     "links", "link", "operations", "edit", "raw", "history", "lastsearch",
     "back", "checkins", "checkin", "notify", "amend", "favorites",
     "favorite", "unfavorite", "recent", "ipython", "quit"}

\* Alias.__init__: tokens = cmdline.split(), here already split
Alias(cmdline) == [cmdname |-> Head(cmdline), args |-> Tail(cmdline)]

\* create_aliases: the default aliases
DefaultAliases ==
    [name \in {"?", "b", "bye", "c", "exit", "h", "login", "logout", "mycases",
               "r", "s", "sh", "star", "starred", "unstar"} |->
        Alias(CASE name = "?" -> <<"help">>
                [] name = "b" -> <<"browse">>
                [] name = "bye" -> <<"quit">>
                [] name = "c" -> <<"comment">>
                [] name = "exit" -> <<"quit">>
                [] name = "h" -> <<"history">>
                [] name = "login" -> <<"logon">>
                [] name = "logout" -> <<"logoff">>
                [] name = "mycases" -> <<"search", "assignedTo:me", "status:open">>
                [] name = "r" -> <<"reload">>
                [] name = "s" -> <<"show">>
                [] name = "sh" -> <<"header">>
                [] name = "star" -> <<"favorite">>
                [] name = "starred" -> <<"favorites">>
                [] name = "unstar" -> <<"unfavorite">>)]

\* create_aliases: the defaults, then alias(name, cmdline) for each option
\* of the [aliases] section of the user's file (one option per name)
create_aliases(user) ==
    LET names == {u.name : u \in user}
    IN [name \in DOMAIN DefaultAliases \cup names |->
          IF name \in names
          THEN Alias((CHOOSE u \in user : u.name = name).cmdline)
          ELSE DefaultAliases[name]]

-----------------------------------------------------------------------------
(* Run records *)

Kinds == {"error", "interrupt"}

NoFault == [at |-> 0, kind |-> "error"]

Faults(n) == {NoFault} \cup {[at |-> a, kind |-> k] : a \in 1..n, k \in Kinds}

NoLast == [cmd |-> "", arg |-> 0, out |-> "", trace |-> <<>>, via |-> ""]

IdleRetry == [pc |-> "idle", k |-> "", token |-> FALSE, attempts |-> 0, logins |-> 0]

\* no fetch by id has answered in this run
NoCount == -1

\* the editor has left no text to this run
NoText == [body |-> FALSE, meta |-> ""]

Start(o) ==
    [out |-> "run", trace |-> <<>>, cur |-> CURRENT_CASE, hist |-> HISTORY,
     draft |-> draft, user |-> CURRENT_USER, search |-> LAST_SEARCH,
     at |-> o.at, kind |-> o.kind, count |-> NoCount, msg |-> "",
     text |-> NoText]

\* the exception a failing step raises: KeyboardInterrupt, EOFError from
\* input(), or the error of the remote call / subprocess
Raised(name, kind) ==
    IF kind = "interrupt" THEN "interrupt"
    ELSE IF name = "ask" THEN "eof"
    ELSE "error"

\* a step that may raise: a remote call, input() or the editor subprocess
Step(r, name) ==
    IF r.out # "run" THEN r
    ELSE LET t == Append(r.trace, name)
         IN IF Len(t) = r.at
            THEN [r EXCEPT !.trace = t, !.out = Raised(name, r.kind)]
            ELSE [r EXCEPT !.trace = t]

\* assert cond
Check(r, cond) ==
    IF r.out = "run" /\ ~cond THEN [r EXCEPT !.out = "assert"] ELSE r

\* assert cond, msg
AssertMsg(r, cond, msg) ==
    IF r.out = "run" /\ ~cond THEN [r EXCEPT !.out = "assert", !.msg = msg] ELSE r

\* raise what
Raise(r, what) ==
    IF r.out = "run" THEN [r EXCEPT !.out = what] ELSE r

Remote == {"search", "view", "viewPerson", "listPeople", "listStatuses",
           "listProjects", "listAreas", "listFixFors", "listCases",
           "edit", "resolve", "reopen", "reactivate", "close", "assign",
           "notify", "amend", "new", "favorite", "unfavorite", "favorites",
           "checkins", "download", "raw", "logon", "logout"}

Mutations == {"edit", "resolve", "reopen", "reactivate", "close", "assign",
              "notify", "amend"}

RemoteCalls(t) == SelectSeq(t, LAMBDA s : s \in Remote)

-----------------------------------------------------------------------------
(* History *)

RECURSIVE RemoveFirst(_, _)
\* list.remove(x): drops the first element equal to x
RemoveFirst(h, x) ==
    IF h = <<>> THEN <<>>
    ELSE IF Head(h) = x THEN Tail(h)
    ELSE <<Head(h)>> \o RemoveFirst(Tail(h), x)

InSeq(h, x) == \E i \in 1..Len(h) : h[i] = x

push_keeping(h, id) == <<id>> \o h

push_at_end(h, id) ==
    IF InSeq(h, id) THEN RemoveFirst(h, id) \o <<id>> ELSE h \o <<id>>

\* History.push: FBShortCase equality is by id
push(h, id) ==
    IF InSeq(h, id) THEN <<id>> \o RemoveFirst(h, id) ELSE <<id>> \o h

back_oldest(h) == IF Len(h) > 1 THEN h[Len(h)] ELSE 0

\* History.back
back(h) == IF Len(h) > 1 THEN h[2] ELSE 0

set_current_case_nopush(r, case) ==
    IF r.out # "run" THEN r
    ELSE [r EXCEPT !.cur = case, !.trace = Append(@, "set_current")]

\* set_current_case
set_current_case(r, case) ==
    IF r.out # "run" THEN r
    ELSE [r EXCEPT !.cur = case, !.hist = push(r.hist, case.id),
                   !.trace = Append(@, "set_current")]

set_current_user(r, user) ==
    IF r.out # "run" THEN r ELSE [r EXCEPT !.user = user]

set_last_search(r, s) ==
    IF r.out # "run" THEN r ELSE [r EXCEPT !.search = s]

-----------------------------------------------------------------------------
(* FBPerson: a lookup answers from FBPerson.CACHE or issues viewPerson.    *)
(* The commands draw whether the person they look up is cached; the cache  *)
(* itself is followed object by object in SpecPersons.                     *)

FBPerson_get(r, cached) == IF cached THEN r ELSE Step(r, "viewPerson")

-----------------------------------------------------------------------------
(* FBCase *)

assert_current(r) == Check(r, r.cur.id # 0)

get_raw_unchecked(r, resp) ==
    LET r1 == Step(r, "search")
    IN IF r1.out = "run" THEN [r1 EXCEPT !.count = resp.count] ELSE r1

\* FBCase._get_raw: count = int(raw.cases.get('count')) and the two asserts
get_raw(r, resp) ==
    LET r1 == Step(r, "search")
        r2 == IF r1.out = "run" THEN [r1 EXCEPT !.count = resp.count] ELSE r1
        r3 == AssertMsg(r2, resp.count # 0, "Cannot find case")
    IN AssertMsg(r3, resp.count = 1, "Found too many cases")

\* FBCase.get_by_id: _get_raw, then FBCase.__init__ makes the case current
get_by_id(r, ixBug, resp) ==
    set_current_case(get_raw(r, resp), [id |-> ixBug, ops |-> resp.ops])

\* FBCase.get_by_id_or_current; ixBug = 0 stands for None
get_by_id_or_current(r, ixBug, resp) ==
    IF ixBug = 0 THEN assert_current(r) ELSE get_by_id(r, ixBug, resp)

refresh(r, resp) ==
    LET r1 == assert_current(r)
    IN get_by_id_or_current(r1, r1.cur.id, resp)

FBCase_assert_operation(r, op) == Check(r, op \in r.cur.ops)

\* evaluating CURRENT_USER.id for the argument list of the remote call
UserId(r) == IF r.user = "me" THEN r ELSE Raise(r, "error")

FBCase_edit(r, kwargs) ==
    IF ~kwargs THEN r
    ELSE Step(UserId(FBCase_assert_operation(r, "edit")), "edit")

FBCase_resolve_unchecked(r) == Step(UserId(r), "resolve")

FBCase_resolve(r) ==
    Step(UserId(FBCase_assert_operation(r, "resolve")), "resolve")

FBCase_reopen(r) ==
    Step(UserId(FBCase_assert_operation(r, "reopen")), "reopen")

FBCase_reactivate(r) ==
    Step(UserId(FBCase_assert_operation(r, "reactivate")), "reactivate")

FBCase_assign(r) ==
    Step(UserId(FBCase_assert_operation(r, "assign")), "assign")

FBCase_notify(r, kwargs) == FBCase_edit(Step(r, "notify"), kwargs)

FBCase_amend(r) == Step(r, "amend")

FBCase_close(r) ==
    Step(UserId(FBCase_assert_operation(r, "close")), "close")

\* print(case): the template reads obj.opened_by, an FBPerson lookup
print_case(r, cached) == FBPerson_get(r, cached)

-----------------------------------------------------------------------------
(* editor: the scratch file and the text read back from it *)

\* what the user left in the file: whether the body (comments stripped) is
\* non-empty, and what Text.meta evaluates to:
\*   "nohdr" no separator line, meta is {}      "null"  empty header, meta is None
\*   "dict"  a mapping without Title            "title" a mapping with a Title
\*   "bad"   the header is not valid YAML
\*   "scalar" the header is YAML for a string
Metas == {"nohdr", "null", "dict", "title", "scalar", "bad"}

Drafts == [body : BOOLEAN, meta : Metas]

\* a comment and nothing else
PlainDraft == [body |-> TRUE, meta |-> "nohdr"]

\* _get_file: asks before reusing an existing file; open() leaves a file
get_file(r) ==
    IF r.out # "run" THEN r
    ELSE IF r.draft THEN Step(r, "ask")
    ELSE [r EXCEPT !.draft = TRUE]

\* _write
write(r) == Step(get_file(r), "editor")

\* _maybe_write
maybe_write(r, ans) ==
    LET r1 == Step(r, "ask")
    IN IF ans THEN write(r1) ELSE r1

clearing_always(r0, r) ==
    IF r0.out # "run" THEN r ELSE [r EXCEPT !.draft = FALSE]

\* _clearing around a with-block entered at r0 and left at r
clearing(r0, r) ==
    IF r0.out # "run" THEN r
    ELSE IF r.out \in {"run", "abort"} THEN [r EXCEPT !.draft = FALSE]
    ELSE r

\* abort_if_empty: Text.is_empty is `not self.body and not self.meta`
\* `as text`: the Text the with-block is given
Reads(r, d) == IF r.out = "run" THEN [r EXCEPT !.text = d] ELSE r

abort_if_no_body(r, d) ==
    IF d.body THEN Reads(r, d) ELSE Raise(Reads(r, d), "abort")

\* abort_if_empty: Text.is_empty is `not self.body and not self.meta`
abort_if_empty(r, d) ==
    IF d.body THEN Reads(r, d)
    ELSE IF d.meta = "bad" THEN Raise(Reads(r, d), "yaml")
    ELSE IF d.meta \in {"nohdr", "null"} THEN Raise(Reads(r, d), "abort")
    ELSE Reads(r, d)

\* Text.get_params_for_comment: self.meta.get('Tags', [])
get_params_for_comment(r, d) ==
    IF d.meta = "bad" THEN Raise(Reads(r, d), "yaml")
    ELSE IF d.meta \in {"null", "scalar"} THEN Raise(Reads(r, d), "error")
    ELSE Reads(r, d)

get_params_for_amend(r, d) == get_params_for_comment(r, d)

\* Text.get_params_for_new, validate_for_new first
get_params_for_new(r, d) ==
    IF d.meta = "bad" THEN Raise(r, "yaml")
    ELSE IF d.meta = "null" THEN Raise(r, "error")
    ELSE Check(r, d.meta = "title")

\* `params = text.get_params_for_comment() if text else {}`
optional_params(r, ans, d) ==
    IF ans THEN get_params_for_comment(r, d) ELSE r

-----------------------------------------------------------------------------
(* Commands: cli.py, one operator per @command handler.  o is the fault   *)
(* drawn for this execution, resp the answer of the fetch it may issue.    *)

assert_operation(r, op) == FBCase_assert_operation(assert_current(r), op)

logon_sets_user_first(o, cached) ==
    LET r1 == Step(Start(o), "logon")
    IN FBPerson_get(set_current_user(r1, "me"), cached)

\* logon: FB.login(), FBPerson.get_by_email, set_current_user
logon(o, cached) ==
    LET r1 == Step(Start(o), "logon")
    IN set_current_user(FBPerson_get(r1, cached), "me")

logoff_clears_case(r) ==
    LET r1 == set_current_user(Step(r, "logout"), "none")
    IN IF r1.out = "run" THEN [r1 EXCEPT !.cur = NoCase] ELSE r1

logoff_clears_history(r) ==
    LET r1 == set_current_user(Step(r, "logout"), "none")
    IN IF r1.out = "run" THEN [r1 EXCEPT !.hist = <<>>, !.search = NoSearch]
       ELSE r1

\* body of logoff, also run by main's `finally`
logoff_from(r) == set_current_user(Step(r, "logout"), "none")

logoff(o) == logoff_from(Start(o))

\* help, whoami, history, lastsearch: print only
info(o) == Start(o)

show(o, ixBug, cached, resp) ==
    LET r1 == get_by_id_or_current(Start(o), ixBug, resp)
        r2 == print_case(r1, cached)
    IN IF ixBug # 0 THEN Step(r2, "view") ELSE r2

header(o, ixBug, cached, resp) ==
    print_case(get_by_id_or_current(Start(o), ixBug, resp), cached)

parent(o, cached, resp) ==
    LET r1 == assert_current(Start(o))
    IN IF r1.out = "run" /\ ParentOf(r1.cur.id) > 0
       THEN show(o, ParentOf(r1.cur.id), cached, resp)
       ELSE r1

reload_(o, cached, resp) ==
    LET r1 == assert_current(Start(o))
    IN IF r1.out = "run" THEN show(o, r1.cur.id, cached, resp) ELSE r1

close(o, ans, d, resp) ==
    LET r0 == assert_operation(Start(o), "close")
        r1 == optional_params(maybe_write(r0, ans), ans, d)
    IN clearing(r0, refresh(FBCase_close(r1), resp))

reactivate(o, ans, d, resp) ==
    LET r0 == assert_operation(Start(o), "reactivate")
        r1 == optional_params(maybe_write(r0, ans), ans, d)
    IN clearing(r0, refresh(FBCase_reactivate(r1), resp))

resolve_reload_first(o, ans, d, resp) ==
    LET r0 == assert_operation(Start(o), "resolve")
        r1 == optional_params(maybe_write(r0, ans), ans, d)
    IN clearing(r0, FBCase_resolve(refresh(r1, resp)))

resolve(o, ans, d, resp) ==
    LET r0 == assert_operation(Start(o), "resolve")
        r1 == optional_params(maybe_write(r0, ans), ans, d)
    IN clearing(r0, refresh(FBCase_resolve(r1), resp))

reopen(o, ans, d, resp) ==
    LET r0 == assert_operation(Start(o), "reopen")
        r1 == optional_params(maybe_write(r0, ans), ans, d)
    IN clearing(r0, refresh(FBCase_reopen(r1), resp))

duplicate(o, ans, d, resp) ==
    LET r0 == assert_operation(Start(o), "resolve")
        r1 == optional_params(maybe_write(r0, ans), ans, d)
    IN clearing(r0, refresh(FBCase_resolve(r1), resp))

statuses(o, cached) ==
    LET r1 == assert_current(Start(o))
    IN IF cached THEN r1 ELSE Step(r1, "listStatuses")

\* args: whether an assignee was typed
assign(o, args, cached, ans, d, resp) ==
    LET r0 == Check(assert_operation(Start(o), "assign"), args)
        r1 == FBPerson_get(r0, cached)
        r2 == optional_params(maybe_write(r1, ans), ans, d)
    IN clearing(r1, refresh(FBCase_assign(r2), resp))

comment_edits_first(o, d, resp) ==
    LET r0 == write(Start(o))
        r1 == get_params_for_comment(abort_if_empty(r0, d), d)
    IN clearing(r0, refresh(FBCase_edit(assert_current(r1), TRUE), resp))

comment(o, d, resp) ==
    LET r0 == assert_current(Start(o))
        r1 == get_params_for_comment(abort_if_empty(write(r0), d), d)
    IN clearing(r0, refresh(FBCase_edit(r1, TRUE), resp))

\* commented: whether the event replied to exists and has a comment
reply(o, commented, d, resp) ==
    LET r0 == Check(assert_current(Start(o)), commented)
        r1 == get_params_for_comment(abort_if_empty(write(r0), d), d)
    IN clearing(r0, refresh(FBCase_edit(r1, TRUE), resp))

\* (p.priority_id, p.project, p.id) <= the same of q, as tuples compare
key_le(p, q) ==
    \/ p.priority_id < q.priority_id
    \/ /\ p.priority_id = q.priority_id
       /\ p.project # q.project
       /\ str_le(p.project, q.project)
    \/ /\ p.priority_id = q.priority_id
       /\ p.project = q.project
       /\ p.id <= q.id

RECURSIVE insort(_, _)
\* x placed after the entries whose key is not greater (sorted is stable)
insort(s, x) ==
    IF s = <<>> THEN <<x>>
    ELSE IF key_le(Head(s), x) THEN <<Head(s)>> \o insort(Tail(s), x)
    ELSE <<x>> \o s

RECURSIVE sorted(_)
\* sorted(shortcases, key=lambda p: (p.priority_id, p.project, p.id))
sorted(s) ==
    IF s = <<>> THEN <<>>
    ELSE insort(sorted(SubSeq(s, 1, Len(s) - 1)), s[Len(s)])

\* cases[cobj.id] = cobj: a dict keeps the place of the key's first
\* assignment and the value of its last
dict_set(cases, cobj) ==
    IF \E i \in 1..Len(cases) : cases[i].id = cobj.id
    THEN [i \in 1..Len(cases) |->
            IF cases[i].id = cobj.id THEN cobj ELSE cases[i]]
    ELSE Append(cases, cobj)

RECURSIVE cases_values(_)
\* the loop of _parse_cases over resp.cases.findAll('case'), then
\* cases.values(); an answer without <cases> gives no values
cases_values(resp) ==
    IF resp = <<>> THEN <<>>
    ELSE dict_set(cases_values(SubSeq(resp, 1, Len(resp) - 1)), resp[Len(resp)])

\* FBCaseSearch.__init__, as the value set_last_search is given
FBCaseSearch(shortcases) == [set |-> TRUE, shortcases |-> sorted(shortcases)]

FBCaseSearch_parse_all(resp) == FBCaseSearch(resp)

\* FBCaseSearch._parse_cases
FBCaseSearch_parse_cases(resp) == FBCaseSearch(cases_values(resp))

\* FBCaseSearch.search / top once the remote call has answered
parse_cases(r, hits) == set_last_search(r, FBCaseSearch_parse_cases(hits))

search(o, hits) == parse_cases(Step(Start(o), "search"), hits)

top(o, hits) == parse_cases(Step(Start(o), "listCases"), hits)

\* browse, attachments, links, operations: read the current case only
local_view(o) == assert_current(Start(o))

\* ixBug: the id FB.new answers with
new(o, d, ixBug, resp) ==
    LET r0 == UserId(Start(o))
        r1 == get_params_for_new(abort_if_empty(write(r0), d), d)
    IN clearing(r0, get_by_id(Step(r1, "new"), ixBug, resp))

\* projects, areas, milestones, people, favorites, recent, raw: one remote read
listing(o, call) == Step(Start(o), call)

\* found: the id names an attachment of the case; local: it is on disk
attachment(o, found, local) ==
    LET r1 == Check(assert_current(Start(o)), found)
    IN IF local THEN r1 ELSE Step(r1, "download")

\* valid: 0 <= ilink < len(links)
link(o, valid) == Check(assert_current(Start(o)), valid)

\* kwargs: whether the arguments parse to at least one key=value
edit(o, kwargs, resp) ==
    LET r1 == assert_operation(Start(o), "edit")
    IN refresh(FBCase_edit(r1, kwargs), resp)

previous_case(o, cached, resp) ==
    IF back(HISTORY) = 0 THEN Start(o)
    ELSE show(o, back(HISTORY), cached, resp)

checkins(o) == Step(assert_current(Start(o)), "checkins")

checkin(o, found) ==
    Check(Step(assert_current(Start(o)), "checkins"), found)

\* others: whether somebody besides the current user is named
notify(o, cached, others, ans, d, resp) ==
    LET r0 == FBPerson_get(assert_current(Start(o)), cached)
        r1 == Check(UserId(r0), others)
        r2 == optional_params(maybe_write(r1, ans), ans, d)
    IN clearing(r1, refresh(FBCase_notify(r2, ans), resp))

amend(o, commented, d, resp) ==
    LET r0 == assert_current(Start(o))
        r1 == IF commented THEN r0 ELSE Raise(r0, "error")
        r2 == get_params_for_amend(abort_if_empty(write(r1), d), d)
    IN clearing(r1, refresh(FBCase_amend(r2), resp))

favorite(o, ixBug, resp) ==
    Step(get_by_id_or_current(Start(o), ixBug, resp), "favorite")

unfavorite(o, ixBug, resp) ==
    Step(get_by_id_or_current(Start(o), ixBug, resp), "unfavorite")

quit_(o) == Raise(Start(o), "quit")

\* exec_ of a name that is neither an alias nor a command
unknown(o) == Check(Start(o), FALSE)

\* read_: input() at the prompt; typed = "" for an empty or comment line
read_(o) == Step(Start(o), "ask")

-----------------------------------------------------------------------------
(* main(): startup, the optional command-line command, the loop *)

Commit(r) ==
    /\ CURRENT_CASE' = r.cur
    /\ CURRENT_USER' = r.user
    /\ LAST_SEARCH' = r.search
    /\ HISTORY' = r.hist
    /\ draft' = r.draft

Outcome(r) == IF r.out = "run" THEN "ok" ELSE r.out

format_exception_generic(out) ==
    IF out = "abort" THEN "Aborted." ELSE "ERROR"

\* _format_exception: what is printed or logged for the exception caught
format_exception(out) ==
    IF out = "abort" THEN "Aborted."
    ELSE IF out = "yaml" THEN "ERROR in case header: must be valid YAML"
    ELSE "ERROR"

Leaves_on_interrupt(out) == out \in {"eof", "quit", "interrupt"}

\* exec_ctx: EOFError calls quit_(), whose SystemExit (like the one of the
\* quit command) is not caught; everything else is swallowed
Leaves(out) == out \in {"eof", "quit"}

\* main: the `try: ... finally: logoff()` encloses the loop, not the
\* command given on the command line
Guarded(at) == at = "read"

\* one command under exec_ctx, then the way main() continues
exec_ctx(cmd, arg, r) ==
    LET out == Outcome(r)
        f == IF Leaves(out) /\ Guarded(pc)
             THEN logoff_from([r EXCEPT !.out = "run", !.at = 0])
             ELSE r
    IN /\ Commit(f)
       /\ pc' = IF Leaves(out) THEN "exited" ELSE "handled"
       /\ last' = [cmd |-> cmd, arg |-> arg, out |-> out, trace |-> f.trace,
                   via |-> pc, count |-> f.count, msg |-> f.msg,
                   text |-> f.text]
       /\ UNCHANGED <<retry, CACHE, COMMANDS, ALIASES>>

Fetched(r) == InSeq(r.trace, "set_current")

\* the editor has returned, so the text of the draft is read
Edited(r) == \E i \in 1..Len(r.trace) : r.trace[i] = "editor" /\ i # r.at

\* exec_: a command run with every fault it can meet, every text the user
\* may leave in the editor and every answer to its fetch
Exec(cmd, arg, Op(_, _, _)) ==
    /\ pc \in {"cmdline", "read"}
    /\ LET full == Op(NoFault, PlainDraft, OkResponse)
       IN \E at \in 0..Len(full.trace) :
          \E kind \in (IF at = 0 THEN {"error"} ELSE Kinds) :
            LET o == [at |-> at, kind |-> kind]
            IN \E d \in (IF Edited(Op(o, PlainDraft, OkResponse))
                         THEN Drafts ELSE {PlainDraft}) :
               \E resp \in (IF Fetched(Op(o, d, OkResponse))
                            THEN FetchResponses ELSE {OkResponse}) :
                 exec_ctx(cmd, arg, Op(o, d, resp))

Init ==
    /\ CURRENT_CASE = NoCase
    /\ CURRENT_USER = "none"
    /\ LAST_SEARCH = NoSearch
    /\ HISTORY = <<>>
    /\ draft \in BOOLEAN
    /\ pc = "start"
    /\ last = NoLast
    /\ retry = IdleRetry
    /\ CACHE = <<>>
    /\ COMMANDS = RegisteredCommands
    /\ ALIASES = create_aliases({})

\* main: logon(), _warmup(), welcome(); FBPerson.CACHE starts empty
main_startup(o) == Step(logon(o, FALSE), "listPeople")

\* main before the loop: nothing catches what logon() or _warmup() raises
Startup ==
    /\ pc = "start"
    /\ \E o \in Faults(Len(main_startup(NoFault).trace)), args \in BOOLEAN :
         LET r == main_startup(o)
         IN /\ Commit(r)
            /\ pc' = IF r.out # "run" THEN "crashed"
                     ELSE IF args THEN "cmdline" ELSE "read"
            /\ last' = [cmd |-> "main", arg |-> 0, out |-> Outcome(r),
                        trace |-> r.trace, via |-> pc]
            /\ UNCHANGED <<retry, CACHE, COMMANDS, ALIASES>>

\* the next iteration of `while True`
Loop ==
    /\ pc = "handled"
    /\ pc' = "read"
    /\ last' = NoLast
    /\ UNCHANGED <<CURRENT_CASE, CURRENT_USER, LAST_SEARCH, HISTORY, draft, retry,
                   CACHE, COMMANDS, ALIASES>>

Read ==
    /\ pc = "read"
    /\ Exec("read", 0, LAMBDA o, d, resp : read_(o))

Ids0 == {0} \cup CaseIds

DoLogon == \E c \in BOOLEAN : Exec("logon", 0, LAMBDA o, d, resp : logon(o, c))
DoLogoff == Exec("logoff", 0, LAMBDA o, d, resp : logoff(o))
DoInfo == \E c \in {"help", "whoami", "history", "lastsearch"} :
    Exec(c, 0, LAMBDA o, d, resp : info(o))
DoShow == \E ix \in Ids0, c \in BOOLEAN :
    Exec("show", ix, LAMBDA o, d, resp : show(o, ix, c, resp))
\* exec_: a token of digits is show(token)
DoNumber == \E ix \in CaseIds, c \in BOOLEAN :
    Exec("number", ix, LAMBDA o, d, resp : show(o, ix, c, resp))
DoHeader == \E ix \in Ids0, c \in BOOLEAN :
    Exec("header", ix, LAMBDA o, d, resp : header(o, ix, c, resp))
DoParent == \E c \in BOOLEAN :
    Exec("parent", 0, LAMBDA o, d, resp : parent(o, c, resp))
DoReload == \E c \in BOOLEAN :
    Exec("reload", 0, LAMBDA o, d, resp : reload_(o, c, resp))
DoBack == \E c \in BOOLEAN :
    Exec("back", 0, LAMBDA o, d, resp : previous_case(o, c, resp))

DoClose == \E ans \in BOOLEAN :
    Exec("close", 0, LAMBDA o, d, resp : close(o, ans, d, resp))
DoReactivate == \E ans \in BOOLEAN :
    Exec("reactivate", 0, LAMBDA o, d, resp : reactivate(o, ans, d, resp))
DoResolve == \E ans \in BOOLEAN :
    Exec("resolve", 0, LAMBDA o, d, resp : resolve(o, ans, d, resp))
DoReopen == \E ans \in BOOLEAN :
    Exec("reopen", 0, LAMBDA o, d, resp : reopen(o, ans, d, resp))
DoDuplicate == \E ans \in BOOLEAN :
    Exec("duplicate", 0, LAMBDA o, d, resp : duplicate(o, ans, d, resp))
DoAssign == \E ans \in BOOLEAN, args \in BOOLEAN, c \in BOOLEAN :
    Exec("assign", 0, LAMBDA o, d, resp : assign(o, args, c, ans, d, resp))
DoNotify == \E ans \in BOOLEAN, others \in BOOLEAN, c \in BOOLEAN :
    Exec("notify", IF ans THEN 1 ELSE 0,
         LAMBDA o, d, resp : notify(o, c, others, ans, d, resp))
DoComment ==
    Exec("comment", 0, LAMBDA o, d, resp : comment(o, d, resp))
DoReply == \E c \in BOOLEAN :
    Exec("reply", 0, LAMBDA o, d, resp : reply(o, c, d, resp))
DoAmend == \E c \in BOOLEAN :
    Exec("amend", 0, LAMBDA o, d, resp : amend(o, c, d, resp))
DoNew == \E ix \in CaseIds :
    Exec("new", ix, LAMBDA o, d, resp : new(o, d, ix, resp))
DoEdit == \E kw \in BOOLEAN :
    Exec("edit", IF kw THEN 1 ELSE 0, LAMBDA o, d, resp : edit(o, kw, resp))
DoSearch == \E hits \in SearchResponses :
    Exec("search", 0, LAMBDA o, d, resp : search(o, hits))
DoTop == \E hits \in SearchResponses :
    Exec("top", 0, LAMBDA o, d, resp : top(o, hits))
DoStatuses == \E c \in BOOLEAN :
    Exec("statuses", 0, LAMBDA o, d, resp : statuses(o, c))
DoLocalView == \E c \in {"browse", "attachments", "links", "operations"} :
    Exec(c, 0, LAMBDA o, d, resp : local_view(o))
DoAttachment == \E f \in BOOLEAN, l \in BOOLEAN :
    Exec("attachment", 0, LAMBDA o, d, resp : attachment(o, f, l))
DoLink == \E v \in BOOLEAN : Exec("link", 0, LAMBDA o, d, resp : link(o, v))
DoCheckins == Exec("checkins", 0, LAMBDA o, d, resp : checkins(o))
DoCheckin == \E f \in BOOLEAN :
    Exec("checkin", 0, LAMBDA o, d, resp : checkin(o, f))
DoListing ==
    \E c \in {<<"projects", "listProjects">>, <<"areas", "listAreas">>,
              <<"milestones", "listFixFors">>, <<"people", "listPeople">>,
              <<"favorites", "favorites">>, <<"recent", "favorites">>,
              <<"raw", "raw">>} :
        Exec(c[1], 0, LAMBDA o, d, resp : listing(o, c[2]))
DoFavorite == \E ix \in Ids0 :
    Exec("favorite", ix, LAMBDA o, d, resp : favorite(o, ix, resp))
DoUnfavorite == \E ix \in Ids0 :
    Exec("unfavorite", ix, LAMBDA o, d, resp : unfavorite(o, ix, resp))
DoQuit == Exec("quit", 0, LAMBDA o, d, resp : quit_(o))
DoUnknown == Exec("unknown", 0, LAMBDA o, d, resp : unknown(o))

Next ==
    \/ Startup \/ Loop \/ Read
    \/ DoLogon \/ DoLogoff \/ DoInfo \/ DoShow \/ DoNumber \/ DoHeader
    \/ DoParent \/ DoReload \/ DoBack
    \/ DoClose \/ DoReactivate \/ DoResolve \/ DoReopen \/ DoDuplicate
    \/ DoAssign \/ DoNotify \/ DoComment \/ DoReply \/ DoAmend \/ DoNew
    \/ DoEdit \/ DoSearch \/ DoTop \/ DoStatuses \/ DoLocalView
    \/ DoAttachment \/ DoLink \/ DoCheckins \/ DoCheckin \/ DoListing
    \/ DoFavorite \/ DoUnfavorite \/ DoQuit \/ DoUnknown

Spec == Init /\ [][Next]_vars

-----------------------------------------------------------------------------
(* FBCase's mutating methods called on any case, by any caller *)

InitMethods ==
    /\ CURRENT_CASE \in [id : CaseIds, ops : SUBSET Operations]
    /\ CURRENT_USER \in {"me", "none"}
    /\ LAST_SEARCH = NoSearch
    /\ HISTORY = <<>>
    /\ draft = FALSE
    /\ pc = "method"
    /\ last = NoLast
    /\ retry = IdleRetry
    /\ CACHE = <<>>
    /\ COMMANDS = RegisteredCommands
    /\ ALIASES = create_aliases({})

Invoke(m, arg, r) ==
    /\ pc = "method"
    /\ Commit(r)
    /\ pc' = "returned"
    /\ last' = [cmd |-> m, arg |-> arg, out |-> Outcome(r), trace |-> r.trace,
                via |-> "method"]
    /\ UNCHANGED <<retry, CACHE, COMMANDS, ALIASES>>

CallEdit == \E o \in Faults(1), kw \in BOOLEAN :
    Invoke("edit", IF kw THEN 1 ELSE 0, FBCase_edit(Start(o), kw))
CallResolve == \E o \in Faults(1) : Invoke("resolve", 1, FBCase_resolve(Start(o)))
CallReopen == \E o \in Faults(1) : Invoke("reopen", 1, FBCase_reopen(Start(o)))
CallReactivate == \E o \in Faults(1) :
    Invoke("reactivate", 1, FBCase_reactivate(Start(o)))
CallAssign == \E o \in Faults(1) : Invoke("assign", 1, FBCase_assign(Start(o)))
CallNotify == \E o \in Faults(2), kw \in BOOLEAN :
    Invoke("notify", IF kw THEN 1 ELSE 0, FBCase_notify(Start(o), kw))
CallAmend == \E o \in Faults(1) : Invoke("amend", 1, FBCase_amend(Start(o)))
CallClose == \E o \in Faults(1) : Invoke("close", 1, FBCase_close(Start(o)))

Return ==
    /\ pc = "returned"
    /\ pc' = "method"
    /\ last' = NoLast
    /\ UNCHANGED <<CURRENT_CASE, CURRENT_USER, LAST_SEARCH, HISTORY, draft, retry,
                   CACHE, COMMANDS, ALIASES>>

NextMethods ==
    \/ CallEdit \/ CallResolve \/ CallReopen \/ CallReactivate \/ CallAssign
    \/ CallNotify \/ CallAmend \/ CallClose \/ Return

SpecMethods == InitMethods /\ [][NextMethods]_vars

-----------------------------------------------------------------------------
(* FBClient.__getattr__ / retrying: one passthrough call *)

Passthrough == {"search", "edit", "resolve", "reopen", "close", "assign",
                "viewPerson", "listPeople"}

InitRetry ==
    /\ CURRENT_CASE = NoCase
    /\ CURRENT_USER = "none"
    /\ LAST_SEARCH = NoSearch
    /\ HISTORY = <<>>
    /\ draft = FALSE
    /\ pc = "start"
    /\ last = NoLast
    /\ \E t \in BOOLEAN : retry = [IdleRetry EXCEPT !.token = t]
    /\ CACHE = <<>>
    /\ COMMANDS = RegisteredCommands
    /\ ALIASES = create_aliases({})

Session ==
    <<CURRENT_CASE, CURRENT_USER, LAST_SEARCH, HISTORY, draft, pc, last, CACHE,
      COMMANDS, ALIASES>>

\* FB.<k>(...): helper(*args, **kwargs) is entered
RetryCall ==
    /\ retry.pc = "idle"
    /\ \E k \in Passthrough :
         retry' = [retry EXCEPT !.pc = "calling", !.k = k, !.attempts = 0,
                                !.logins = 0]
    /\ UNCHANGED Session

\* helper: `return f(*args, **kwargs)`, or FogBugzLogonError is caught
RetryAttempt ==
    /\ retry.pc = "calling"
    /\ retry.attempts < MaxAttempts
    /\ \E res \in {"ok", "expired", "error"} :
         retry' = [retry EXCEPT
                     !.attempts = @ + 1,
                     !.pc = IF res = "ok" THEN "returned"
                            ELSE IF res = "expired" THEN "relogin"
                            ELSE "raised"]
    /\ UNCHANGED Session

\* helper: `self.login()` then `return helper(*args, **kwargs)`;
\* login() does nothing when a token is used
RetryLogin ==
    /\ retry.pc = "relogin"
    /\ \E ok \in (IF retry.token THEN {TRUE} ELSE BOOLEAN) :
         retry' = [retry EXCEPT !.logins = @ + 1,
                                !.pc = IF ok THEN "calling" ELSE "raised"]
    /\ UNCHANGED Session

\* the call has returned or raised to its caller
RetryDone ==
    /\ retry.pc \in {"returned", "raised"}
    /\ retry' = [retry EXCEPT !.pc = "idle"]
    /\ UNCHANGED Session

NextRetry == RetryCall \/ RetryAttempt \/ RetryLogin \/ RetryDone

SpecRetry == InitRetry /\ [][NextRetry]_vars

-----------------------------------------------------------------------------
(* FBPerson.CACHE: a set of FBPerson objects.  FBPerson defines neither    *)
(* __eq__ nor __hash__, so every object made is a member of its own; the   *)
(* cache is the sequence of the objects made, each one the <person> it     *)
(* wraps.                                                                  *)

PersonIds == 1..MaxPerson

\* FB.current_user is the first person's email
Me == 1

\* the <person> element the tracker holds for ixPerson = p
Person(p) == [id |-> p, email |-> <<"mail", p>>, fullname |-> <<"Name", p>>]

\* what get_by_guess may be given: digits, an address, a full name, and a
\* full name typed in lower case
Guesses == [kind : {"digits", "email", "fullname", "lower"}, p : PersonIds]

\* the result of a lookup: the cache after it, its remote calls, its outcome
Found(c, calls, out) == [cache |-> c, calls |-> calls, out |-> out]

\* FBPerson.__init__: self.CACHE.add(self)
FBPerson_init(c, person) == Append(c, person)

\* persons.find('person') of an answer without <person>: the FBPerson
\* made of it wraps None, and reading its id, email or fullname raises
NoPerson == [id |-> 0, email |-> <<>>, fullname |-> <<>>]

\* what a lookup meets: the answer of viewPerson (the <person> asked for,
\* an answer without <person>, an error), and, CACHE being a set iterated
\* in no promised order, whether its loop comes to a matching entry before
\* it comes to one that wraps None
Answers == [answer : {"person", "nothing", "raise"}, match_first : BOOLEAN]

\* FBPerson._get: FB.viewPerson, persons.find('person'), cls(person)
FBPerson_fetch(c, key, value, t) ==
    IF t.answer = "person" /\ \E p \in PersonIds : Person(p)[key] = value
    THEN Found(FBPerson_init(c, CHOOSE q \in {Person(p) : p \in PersonIds} :
                                   q[key] = value),
               <<"viewPerson">>, "ok")
    ELSE IF t.answer = "nothing"
    THEN Found(FBPerson_init(c, NoPerson), <<"viewPerson">>, "ok")
    ELSE Found(c, <<"viewPerson">>, "error")

FBPerson_always_fetch(c, key, value, t) == FBPerson_fetch(c, key, value, t)

\* the loop of get_by_id / get_by_email / get_by_fullname over CACHE, then
\* FBPerson._get
FBPerson_lookup(c, key, value, t) ==
    LET matches == \E i \in 1..Len(c) : c[i] # NoPerson /\ c[i][key] = value
        personless == \E i \in 1..Len(c) : c[i] = NoPerson
    IN IF matches /\ (~personless \/ t.match_first) THEN Found(c, <<>>, "ok")
       ELSE IF personless THEN Found(c, <<>>, "error")
       ELSE FBPerson_fetch(c, key, value, t)

FBPerson_get_by_id(c, person_id, t) == FBPerson_lookup(c, "id", person_id, t)

FBPerson_get_by_email(c, email, t) == FBPerson_lookup(c, "email", email, t)

FBPerson_get_by_fullname(c, fullname, t) ==
    FBPerson_lookup(c, "fullname", fullname, t)

\* FBPerson.get_by_guess: int(what), else '@' in what or what == what.lower()
FBPerson_get_by_guess(c, what, t) ==
    IF what.kind = "digits" THEN FBPerson_get_by_id(c, what.p, t)
    ELSE IF what.kind = "email"
    THEN FBPerson_get_by_email(c, Person(what.p).email, t)
    ELSE IF what.kind = "lower"
    THEN FBPerson_get_by_email(c, <<"name", what.p>>, t)
    ELSE FBPerson_get_by_fullname(c, Person(what.p).fullname, t)

RECURSIVE AddAll(_, _)
\* [FBPerson(a) for a in result.findAll('person')]
AddAll(c, n) ==
    IF n = 0 THEN c ELSE FBPerson_init(AddAll(c, n - 1), Person(n))

\* FBPerson.get_all
FBPerson_get_all(c, ok) ==
    IF ok THEN Found(AddAll(c, MaxPerson), <<"listPeople">>, "ok")
    ELSE Found(c, <<"listPeople">>, "error")

InitPersons ==
    /\ CURRENT_CASE = NoCase
    /\ CURRENT_USER = "none"
    /\ LAST_SEARCH = NoSearch
    /\ HISTORY = <<>>
    /\ draft = FALSE
    /\ pc = "persons"
    /\ last = NoLast
    /\ retry = IdleRetry
    /\ CACHE = <<>>
    /\ COMMANDS = RegisteredCommands
    /\ ALIASES = create_aliases({})

\* one operation on FBPerson, as far as the model follows the cache
Lookup(cmd, arg, f) ==
    /\ pc = "persons"
    /\ Len(f.cache) <= MaxCache
    /\ CACHE' = f.cache
    /\ last' = [cmd |-> cmd, arg |-> arg, out |-> f.out, trace |-> f.calls,
                via |-> "persons"]
    /\ UNCHANGED <<CURRENT_CASE, CURRENT_USER, LAST_SEARCH, HISTORY, draft, pc,
                   retry, COMMANDS, ALIASES>>

\* logon: FBPerson.get_by_email(FB.current_user)
PersonsLogon == \E t \in Answers :
    Lookup("logon", Me, FBPerson_get_by_email(CACHE, Person(Me).email, t))
\* _warmup and the people command: FBPerson.get_all()
PersonsGetAll == \E ok \in BOOLEAN, cmd \in {"_warmup", "people"} :
    Lookup(cmd, 0, FBPerson_get_all(CACHE, ok))
\* FBCase.opened_by: FBPerson.get_by_id
PersonsGetById == \E t \in Answers, p \in PersonIds :
    Lookup("get_by_id", p, FBPerson_get_by_id(CACHE, p, t))
PersonsGetByEmail == \E t \in Answers, p \in PersonIds :
    Lookup("get_by_email", p, FBPerson_get_by_email(CACHE, Person(p).email, t))
PersonsGetByFullname == \E t \in Answers, p \in PersonIds :
    Lookup("get_by_fullname", p,
           FBPerson_get_by_fullname(CACHE, Person(p).fullname, t))
\* assign, notify: FBPerson.get_by_guess
PersonsGetByGuess == \E t \in Answers, what \in Guesses :
    Lookup("get_by_guess", what, FBPerson_get_by_guess(CACHE, what, t))

NextPersons ==
    \/ PersonsLogon \/ PersonsGetAll \/ PersonsGetById \/ PersonsGetByEmail
    \/ PersonsGetByFullname \/ PersonsGetByGuess

SpecPersons == InitPersons /\ [][NextPersons]_vars

-----------------------------------------------------------------------------
(* exec_: what a first token and its arguments invoke, under any tables *)

\* [aliases] options a user's file may hold: a new alias, an alias of an
\* alias, an alias named like a number, an alias named like a command
UserOptions ==
    { [name |-> "foo", cmdline |-> <<"search", "bar">>],
      [name |-> "mine", cmdline |-> <<"mycases", "tag:x">>],
      [name |-> "42", cmdline |-> <<"quit">>],
      [name |-> "search", cmdline |-> <<"show", "1">>] }

\* first tokens a user may type
Tokens == {"42", "7", "mycases", "search", "s", "foo", "mine", "nosuch"}

\* str.isdigit() on the tokens above
isdigit(cmd) == cmd \in {"42", "7"}

RECURSIVE SeqsUpTo(_, _)
SeqsUpTo(S, n) ==
    IF n = 0 THEN {<<>>}
    ELSE LET shorter == SeqsUpTo(S, n - 1)
         IN shorter \cup {Append(q, x) : q \in shorter, x \in S}

\* the arguments typed after the first token
ArgLists == SeqsUpTo({"a", "b"}, MaxArgs)

\* a handler entered with its positional arguments
Called(f, args) == [out |-> "call", calls |-> <<[f |-> f, args |-> args]>>]

\* assert ... 'Unknown command'
Unknown == [out |-> "assert", calls |-> <<>>]

\* Alias.cmd and Alias.__call__
Alias_call(a, commands, args) ==
    IF a.cmdname \in commands THEN Called(a.cmdname, a.args \o args)
    ELSE Unknown

exec_tables_first(cmd, args, commands, aliases) ==
    IF cmd \in DOMAIN aliases THEN Alias_call(aliases[cmd], commands, args)
    ELSE IF cmd \in commands THEN Called(cmd, args)
    ELSE IF isdigit(cmd) THEN Called("show", <<cmd>>)
    ELSE Unknown

exec_alias_drops_args(cmd, args, commands, aliases) ==
    IF isdigit(cmd) THEN Called("show", <<cmd>>)
    ELSE IF cmd \in DOMAIN aliases
    THEN Alias_call(aliases[cmd], commands, <<>>)
    ELSE IF cmd \in commands THEN Called(cmd, args)
    ELSE Unknown

\* exec_
exec_(cmd, args, commands, aliases) ==
    IF isdigit(cmd) THEN Called("show", <<cmd>>)
    ELSE IF cmd \in DOMAIN aliases THEN Alias_call(aliases[cmd], commands, args)
    ELSE IF cmd \in commands THEN Called(cmd, args)
    ELSE Unknown

InitExec ==
    /\ CURRENT_CASE = NoCase
    /\ CURRENT_USER = "none"
    /\ LAST_SEARCH = NoSearch
    /\ HISTORY = <<>>
    /\ draft = FALSE
    /\ pc = "exec_"
    /\ last = NoLast
    /\ retry = IdleRetry
    /\ CACHE = <<>>
    /\ \E numeric \in BOOLEAN :
         COMMANDS = RegisteredCommands \cup (IF numeric THEN {"7"} ELSE {})
    /\ \E user \in SUBSET UserOptions : ALIASES = create_aliases(user)

\* exec_(cmd, args) under the tables of this run
Dispatch ==
    /\ pc = "exec_"
    /\ \E cmd \in Tokens, args \in ArgLists :
         LET e == exec_(cmd, args, COMMANDS, ALIASES)
         IN last' = [cmd |-> cmd, arg |-> args, out |-> e.out,
                     trace |-> e.calls, via |-> "exec_"]
    /\ pc' = "dispatched"
    /\ UNCHANGED <<CURRENT_CASE, CURRENT_USER, LAST_SEARCH, HISTORY, draft,
                   retry, CACHE, COMMANDS, ALIASES>>

\* the handler has returned
Dispatched ==
    /\ pc = "dispatched"
    /\ pc' = "exec_"
    /\ last' = NoLast
    /\ UNCHANGED <<CURRENT_CASE, CURRENT_USER, LAST_SEARCH, HISTORY, draft,
                   retry, CACHE, COMMANDS, ALIASES>>

NextExec == Dispatch \/ Dispatched

SpecExec == InitExec /\ [][NextExec]_vars

-----------------------------------------------------------------------------
(* editor.Text on the lines of a draft.  A text is the sequence of its     *)
(* lines (text.splitlines()); joining with a newline and stripping         *)
(* newlines at both ends leaves the lines without the empty ones at both   *)
(* ends, and the empty string is <<>>.                                     *)

\* lines a draft may hold: an empty line, a line of blanks, a comment, a
\* line of prose, the separator, two header entries and a broken one
Lines == {"", " ", "# c", "x", "---", "Tags: [t]", "Title: t", "Title:t: [ "}

Texts == SeqsUpTo(Lines, MaxLines)

\* line.strip()
strip(line) == IF line = " " THEN "" ELSE line

\* line.startswith(COMMENT_CHAR)
startswith_comment(line) == line = "# c"

RECURSIVE drop_trailing_comments(_)
\* dropwhile(startswith '#', reversed(lines)), reversed again
drop_trailing_comments(lines) ==
    IF lines = <<>> THEN <<>>
    ELSE IF startswith_comment(lines[Len(lines)])
    THEN drop_trailing_comments(SubSeq(lines, 1, Len(lines) - 1))
    ELSE lines

strip_comments_everywhere(lines) ==
    SelectSeq(lines, LAMBDA line : ~startswith_comment(line))

keep_comments(lines) == lines

\* _strip_comments
strip_comments(lines) == drop_trailing_comments(lines)

RECURSIVE strip_newlines(_)
\* str.strip('\n') of the joined lines
strip_newlines(lines) ==
    IF lines = <<>> THEN <<>>
    ELSE IF Head(lines) = "" THEN strip_newlines(Tail(lines))
    ELSE IF lines[Len(lines)] = ""
    THEN strip_newlines(SubSeq(lines, 1, Len(lines) - 1))
    ELSE lines

\* [line.strip() for line in text.splitlines()]
Stripped(text) == [i \in 1..Len(text) |-> strip(text[i])]

\* index of the first separator line
SepAt(text) == CHOOSE i \in 1..Len(text) :
    Stripped(text)[i] = "---" /\ \A j \in 1..(i - 1) : Stripped(text)[j] # "---"

\* Text._parse: (header, raw_body); header = <<"None">> stands for None
Text_parse(text) ==
    IF \E i \in 1..Len(text) : Stripped(text)[i] = "---"
    THEN [header |-> SubSeq(Stripped(text), 1, SepAt(text) - 1),
          raw_body |-> SubSeq(Stripped(text), SepAt(text) + 1, Len(text)),
          with_header |-> TRUE]
    ELSE [header |-> <<"None">>, raw_body |-> text, with_header |-> FALSE]

\* yaml.load(self._header) on the lines above, by the kind of value it returns:
\* None for no content, a mapping (with or without Title) for entries only,
\* a string for prose only, YAMLError otherwise
yaml_load(hdr) ==
    LET content == SelectSeq(hdr, LAMBDA l : l \notin {"", "# c"})
        entries == {"Tags: [t]", "Title: t"}
        all(S) == \A i \in 1..Len(content) : content[i] \in S
    IN IF content = <<>> THEN "null"
       ELSE IF all(entries)
       THEN (IF InSeq(content, "Title: t") THEN "title" ELSE "dict")
       ELSE IF all({"x"}) THEN "scalar"
       ELSE "bad"

\* Text.meta
Text_meta(text) ==
    IF ~Text_parse(text).with_header THEN "nohdr"
    ELSE yaml_load(Text_parse(text).header)

\* Text.body
Text_body(text) == strip_newlines(strip_comments(Text_parse(text).raw_body))

\* bool(meta): None and {} are false
Truthy(meta) == meta \notin {"nohdr", "null"}

\* Text.is_empty: not self.body and not self.meta; "yaml" if meta raises
Text_is_empty(text) ==
    IF Text_body(text) # <<>> THEN "no"
    ELSE IF Text_meta(text) = "bad" THEN "yaml"
    ELSE IF Truthy(Text_meta(text)) THEN "no"
    ELSE "yes"

\* self.meta.get('Tags', []) joined with commas
Text_tags(text) ==
    IF InSeq(Text_parse(text).header, "Tags: [t]") THEN <<"t">> ELSE <<>>

\* Text.get_params_for_comment (no Files in these texts)
Text_get_params_for_comment(text) ==
    [k \in {"sEvent", "sTags"} |->
        IF k = "sEvent" THEN Text_body(text) ELSE Text_tags(text)]

\* FBCase._clean_kwargs
clean_kwargs(kwargs) ==
    IF "sEvent" \in DOMAIN kwargs /\ kwargs["sEvent"] = <<>>
    THEN [k \in DOMAIN kwargs \ {"sEvent"} |-> kwargs[k]]
    ELSE kwargs

\* the draft the commands see in a text: whether it has a body, and its meta
DraftOf(text) == [body |-> Text_body(text) # <<>>, meta |-> Text_meta(text)]

\* the body of `with editor.writing() as text:` in comment, once the editor
\* has returned text: abort_if_empty, get_params_for_comment, FBCase.edit
Submit(text) ==
    IF Text_is_empty(text) = "yes" THEN [out |-> "abort", calls |-> <<>>]
    ELSE IF Text_is_empty(text) = "yaml" \/ Text_meta(text) = "bad"
    THEN [out |-> "yaml", calls |-> <<>>]
    ELSE IF Text_meta(text) \in {"null", "scalar"}
    THEN [out |-> "error", calls |-> <<>>]
    ELSE [out |-> "ok",
          calls |-> <<[call |-> "edit",
                       kwargs |-> clean_kwargs(Text_get_params_for_comment(text))]>>]

InitText ==
    /\ CURRENT_CASE = NoCase
    /\ CURRENT_USER = "none"
    /\ LAST_SEARCH = NoSearch
    /\ HISTORY = <<>>
    /\ draft = FALSE
    /\ pc = "editor"
    /\ last = NoLast
    /\ retry = IdleRetry
    /\ CACHE = <<>>
    /\ COMMANDS = RegisteredCommands
    /\ ALIASES = create_aliases({})

TextFrame ==
    <<CURRENT_CASE, CURRENT_USER, LAST_SEARCH, HISTORY, draft, retry, CACHE,
      COMMANDS, ALIASES>>

\* abort_if_empty(Text(text)) for the text the editor left
TextAbortIfEmpty ==
    /\ pc = "editor"
    /\ \E text \in Texts :
         last' = [cmd |-> "abort_if_empty", arg |-> text,
                  out |-> (CASE Text_is_empty(text) = "yes" -> "abort"
                             [] Text_is_empty(text) = "yaml" -> "yaml"
                             [] OTHER -> "ok"),
                  trace |-> <<>>, via |-> "editor"]
    /\ pc' = "text"
    /\ UNCHANGED TextFrame

\* the block of comment on the text the editor left
TextSubmit ==
    /\ pc = "editor"
    /\ \E text \in Texts :
         last' = [cmd |-> "comment", arg |-> text, out |-> Submit(text).out,
                  trace |-> Submit(text).calls, via |-> "editor"]
    /\ pc' = "text"
    /\ UNCHANGED TextFrame

\* Text(text).body for the text the editor left
TextBody ==
    /\ pc = "editor"
    /\ \E text \in Texts :
         last' = [cmd |-> "body", arg |-> text, out |-> Text_body(text),
                  trace |-> <<>>, via |-> "editor"]
    /\ pc' = "text"
    /\ UNCHANGED TextFrame

\* the editor is run again
TextAgain ==
    /\ pc = "text"
    /\ pc' = "editor"
    /\ last' = NoLast
    /\ UNCHANGED TextFrame

NextText == TextAbortIfEmpty \/ TextSubmit \/ TextBody \/ TextAgain

SpecText == InitText /\ [][NextText]_vars

-----------------------------------------------------------------------------
(* search and top on any answer of the tracker *)

\* what FB.search / FB.listCases may answer: up to MaxHits <case> elements
RawResponses == UNION {[1..n -> Hits] : n \in 0..MaxHits}

\* a session in which nothing was shown or searched, and one in which
\* case 1 was shown after a search
InitSearch ==
    /\ \E seen \in BOOLEAN :
         /\ CURRENT_CASE = IF seen THEN [id |-> 1, ops |-> {"edit"}] ELSE NoCase
         /\ HISTORY = IF seen THEN <<1>> ELSE <<>>
         /\ LAST_SEARCH = IF seen THEN FBCaseSearch(<<>>) ELSE NoSearch
    /\ CURRENT_USER = "me"
    /\ draft = FALSE
    /\ pc = "search"
    /\ last = NoLast
    /\ retry = IdleRetry
    /\ CACHE = <<>>
    /\ COMMANDS = RegisteredCommands
    /\ ALIASES = create_aliases({})

\* one search or top command; the answer is drawn if the call returns
Searched(cmd, r, resp) ==
    /\ Commit(r)
    /\ pc' = "searched"
    /\ last' = [cmd |-> cmd, arg |-> resp, out |-> Outcome(r), trace |-> r.trace,
                via |-> "search"]
    /\ UNCHANGED <<retry, CACHE, COMMANDS, ALIASES>>

SearchCommand ==
    /\ pc = "search"
    /\ \/ \E resp \in RawResponses :
            Searched("search", search(NoFault, resp), resp)
       \/ \E k \in Kinds :
            Searched("search", search([at |-> 1, kind |-> k], <<>>), <<>>)

TopCommand ==
    /\ pc = "search"
    /\ \/ \E resp \in RawResponses : Searched("top", top(NoFault, resp), resp)
       \/ \E k \in Kinds :
            Searched("top", top([at |-> 1, kind |-> k], <<>>), <<>>)

NextSearch == SearchCommand \/ TopCommand

SpecSearch == InitSearch /\ [][NextSearch]_vars

-----------------------------------------------------------------------------
(* FBCase.links and the links / link commands on any case *)

\* an event, as far as links go: len(event.urls), len(event.inline_urls)
Events == [urls : 0..MaxUrls, inline_urls : 0..MaxUrls]

EventLists == UNION {[1..n -> Events] : n \in 0..MaxEvents}

add_link_same_index(st, event, kind, k) ==
    [ilink |-> st.ilink,
     links |-> Append(st.links, [id |-> st.ilink, event |-> event,
                                 kind |-> kind, k |-> k])]

\* link = FBLink(ilink, event, ...) or FBInlineLink(ilink, event, ...);
\* links.append(link); ilink += 1
add_link(st, event, kind, k) ==
    [ilink |-> st.ilink + 1,
     links |-> Append(st.links, [id |-> st.ilink, event |-> event,
                                 kind |-> kind, k |-> k])]

RECURSIVE add_links(_, _, _, _)
\* one inner loop of FBCase.links: the first n urls of one kind of an event
add_links(st, event, kind, n) ==
    IF n = 0 THEN st
    ELSE add_link(add_links(st, event, kind, n - 1), event, kind, n)

RECURSIVE links_upto(_, _)
\* the loop of FBCase.links over the first m events
links_upto(events, m) ==
    IF m = 0 THEN [ilink |-> 0, links |-> <<>>]
    ELSE add_links(add_links(links_upto(events, m - 1), m, "url",
                             events[m].urls),
                   m, "inline", events[m].inline_urls)

\* FBCase.links
FBCase_links(events) == links_upto(events, Len(events)).links

\* the case the tracker returned carries its events
InitLinks ==
    /\ CURRENT_CASE \in {NoCase}
            \cup {[id |-> 1, ops |-> {"edit"}, events |-> e] : e \in EventLists}
    /\ HISTORY = IF CURRENT_CASE.id = 0 THEN <<>> ELSE <<1>>
    /\ CURRENT_USER = "me"
    /\ LAST_SEARCH = NoSearch
    /\ draft = FALSE
    /\ pc = "links"
    /\ last = NoLast
    /\ retry = IdleRetry
    /\ CACHE = <<>>
    /\ COMMANDS = RegisteredCommands
    /\ ALIASES = create_aliases({})

\* the links command: what it prints
LinksCommand ==
    /\ pc = "links"
    /\ LET r == local_view(NoFault)
       IN /\ Commit(r)
          /\ last' = [cmd |-> "links", arg |-> 0, out |-> Outcome(r),
                      trace |-> IF r.out = "run"
                                THEN FBCase_links(CURRENT_CASE.events) ELSE <<>>,
                      via |-> "links"]
    /\ pc' = "linked"
    /\ UNCHANGED <<retry, CACHE, COMMANDS, ALIASES>>

\* the link command: what it browses
LinkCommand ==
    /\ pc = "links"
    /\ \E ilink \in -1..(2 * MaxUrls * MaxEvents + 1) :
         LET ls == IF CURRENT_CASE.id = 0 THEN <<>>
                   ELSE FBCase_links(CURRENT_CASE.events)
             r == link(NoFault, ilink >= 0 /\ ilink < Len(ls))
         IN /\ Commit(r)
            /\ last' = [cmd |-> "link", arg |-> ilink, out |-> Outcome(r),
                        trace |-> IF r.out = "run" THEN <<ls[ilink + 1]>>
                                  ELSE <<>>,
                        via |-> "links"]
    /\ pc' = "linked"
    /\ UNCHANGED <<retry, CACHE, COMMANDS, ALIASES>>

\* the next command is read
LinksReturn ==
    /\ pc = "linked"
    /\ pc' = "links"
    /\ last' = NoLast
    /\ UNCHANGED <<CURRENT_CASE, CURRENT_USER, LAST_SEARCH, HISTORY, draft, retry,
                   CACHE, COMMANDS, ALIASES>>

NextLinks == LinksCommand \/ LinkCommand \/ LinksReturn

SpecLinks == InitLinks /\ [][NextLinks]_vars

-----------------------------------------------------------------------------
(* Properties *)

NoDuplicates(h) == \A i, j \in 1..Len(h) : h[i] = h[j] => i = j

Without(h, x) == SelectSeq(h, LAMBDA y : y # x)

EndsWith(t, name) == Len(t) > 0 /\ t[Len(t)] = name

CommandStep == pc \in {"cmdline", "read"} /\ pc' \in {"handled", "exited"}

SessionUnchanged == UNCHANGED <<CURRENT_CASE, CURRENT_USER, LAST_SEARCH, HISTORY>>

CheckedMethods == {"resolve", "reopen", "reactivate", "close", "assign"}

OpOf(cmd) ==
    IF cmd \in {"resolve", "duplicate"} THEN "resolve"
    ELSE IF cmd \in {"comment", "reply", "notify"} THEN "edit"
    ELSE cmd

OperationCommands ==
    {"resolve", "reopen", "reactivate", "close", "assign", "edit", "duplicate"}

\* remote calls of a command other than the lookup of the persons it names
CallsBesideLookups(t) == SelectSeq(t, LAMBDA s : s \in Remote \ {"viewPerson"})

\* C2: a command performing an operation the current case's operations lack
\* (resolve, reopen, reactivate, close, assign, edit, duplicate; the edit of
\* comment, reply and notify with a comment) fails, on the precondition for
\* the commands that check first, calls nothing remote (the lookup of a
\* person named in its arguments aside) and leaves the current case and
\* History as they were.
C2_MissingOperationNoRemoteCall ==
    [][ (/\ CommandStep
         /\ CURRENT_CASE.id # 0
         /\ \/ last'.cmd \in OperationCommands
            \/ last'.cmd \in {"comment", "reply"}
            \/ (last'.cmd = "notify" /\ last'.arg = 1)
         /\ OpOf(last'.cmd) \notin CURRENT_CASE.ops)
        => (/\ last'.out # "ok"
            /\ last'.cmd \in OperationCommands => last'.out = "assert"
            /\ CallsBesideLookups(last'.trace) = <<>>
            /\ UNCHANGED <<CURRENT_CASE, HISTORY>>) ]_vars

StateChanging ==
    {"resolve", "reopen", "reactivate", "close", "assign", "edit", "comment",
     "reply", "notify", "amend", "duplicate"}

\* the mutation call comes first, the fetch that sets the current case last
ActThenReload(t) ==
    \E i \in 1..Len(t) :
        /\ t[i] \in Mutations
        /\ Len(t) >= i + 2
        /\ t[Len(t) - 1] = "search"
        /\ t[Len(t)] = "set_current"
        /\ \A j \in 1..(Len(t) - 1) : t[j] # "set_current"
        /\ \A j \in (Len(t) - 1)..Len(t) : t[j] \notin Mutations

\* the current case changes only where a fetch has just answered
ChangedByFetch(t) ==
    \E j \in 2..Len(t) : t[j] = "set_current" /\ t[j - 1] = "search"

\* C3 as claimed: every successful resolve, reopen, reactivate, close, assign,
\* edit, comment, reply, notify, amend or duplicate issues its mutation call
\* and afterwards fetches the case, which becomes the current case with the
\* same id; and the current case changes only by a fetch.
C3_EveryCommandActsThenReloads ==
    [][ /\ (CommandStep /\ last'.cmd \in StateChanging /\ last'.out = "ok")
            => (ActThenReload(last'.trace) /\ CURRENT_CASE'.id = CURRENT_CASE.id)
        /\ CURRENT_CASE' # CURRENT_CASE => ChangedByFetch(last'.trace) ]_vars

\* C3 amended: the same, for every successful command of the list that has
\* something to send; `edit` whose arguments hold no key=value pair sends no
\* mutation call and only fetches the case again.
C3_ActThenReload ==
    [][ /\ (CommandStep /\ last'.cmd \in StateChanging /\ last'.out = "ok")
            => /\ CURRENT_CASE'.id = CURRENT_CASE.id
               /\ IF last'.cmd = "edit" /\ last'.arg = 0
                  THEN last'.trace = <<"search", "set_current">>
                  ELSE ActThenReload(last'.trace)
        /\ CURRENT_CASE' # CURRENT_CASE => ChangedByFetch(last'.trace) ]_vars

C3_Witness ==
    /\ last.cmd = "resolve"
    /\ last.out = "ok"
    /\ last.trace = <<"ask", "resolve", "search", "set_current">>
    /\ "resolve" \notin CURRENT_CASE.ops

\* the id of the case a command fetches, from its argument and the state
\* it starts in
FetchTarget(cmd, arg) ==
    IF cmd \in {"show", "number", "header", "favorite", "unfavorite", "new"}
    THEN arg
    ELSE IF cmd = "parent" THEN ParentOf(CURRENT_CASE.id)
    ELSE IF cmd = "back" THEN back(HISTORY)
    ELSE CURRENT_CASE.id

\* C4: a command in which a fetch by id succeeds (show N, a number, parent,
\* back, reload, new, header N, favorite N, the refresh after a mutation)
\* ends with the fetched case as current case and first in History.
C4_FetchSetsCurrentAndPushes ==
    [][ (CommandStep /\ Fetched(last'))
        => /\ CURRENT_CASE'.id = FetchTarget(last'.cmd, last'.arg)
           /\ CURRENT_CASE'.id \in CaseIds
           /\ HISTORY' # <<>>
           /\ Head(HISTORY') = CURRENT_CASE'.id ]_vars

C4_Witness ==
    /\ last.cmd = "parent"
    /\ Fetched(last)
    /\ Len(HISTORY) >= 2
    /\ CURRENT_CASE.id = ParentOf(HISTORY[2])

\* C5: History never holds an id twice; a push puts its id in front, and
\* the entries for the other ids follow in the order they had.
C5_HistoryPush ==
    [][ /\ NoDuplicates(HISTORY')
        /\ (CommandStep /\ Fetched(last'))
            => HISTORY' = <<CURRENT_CASE'.id>> \o Without(HISTORY, CURRENT_CASE'.id)
        /\ (CommandStep /\ ~Fetched(last')) => HISTORY' = HISTORY ]_vars

C5_Witness ==
    /\ last.cmd = "show"
    /\ Fetched(last)
    /\ HISTORY = <<3, 1, 2>>
    /\ last.arg = 3
    /\ last.out = "error"

\* C6: once a current case is set, no command leaves the session without one.
C6_CurrentCaseNeverUnset ==
    [][ CURRENT_CASE.id # 0 => CURRENT_CASE'.id # 0 ]_vars

C6_Witness ==
    /\ CURRENT_CASE.id # 0
    /\ last.cmd = "logoff"
    /\ last.out = "ok"
    /\ CURRENT_USER = "none"

ImplicitTarget(l) ==
    \/ l.cmd \in {"show", "header", "favorite", "unfavorite"} /\ l.arg = 0
    \/ l.cmd \in {"parent", "reload", "close", "reactivate", "resolve",
                  "reopen", "duplicate", "statuses", "assign", "comment",
                  "reply", "browse", "attachments", "attachment", "links",
                  "link", "operations", "edit", "checkins", "checkin",
                  "notify", "amend"}

\* C7: with no current case, a command that needs one fails on the assertion
\* before any remote call, prompt or editor run, and changes nothing.
C7_NoCurrentCaseFailsFirst ==
    [][ (CommandStep /\ CURRENT_CASE.id = 0 /\ ImplicitTarget(last'))
        => (/\ last'.out = "assert"
            /\ last'.trace = <<>>
            /\ SessionUnchanged
            /\ UNCHANGED draft) ]_vars

C7_Witness ==
    /\ CURRENT_CASE.id = 0
    /\ last.cmd = "comment"
    /\ last.out = "assert"
    /\ last.trace = <<>>
    /\ draft

\* C8: one passthrough call attempts the remote operation at most twice.
C8_AtMostTwoAttempts == retry.attempts <= 2

\* C9: in the loop, a command that ends in an ordinary exception, a user
\* abort or a keyboard interrupt is followed by the next prompt; the process
\* leaves the loop only on quit or end of input.
C9_OnlyQuitOrEofLeavesLoop ==
    last.via = "read" =>
        /\ last.out \in {"ok", "assert", "error", "abort", "yaml", "interrupt"}
            => pc = "handled"
        /\ pc = "exited" => last.out \in {"quit", "eof"}
        /\ pc \in {"handled", "exited"}

C9_Witness ==
    /\ last.via = "read"
    /\ last.out = "interrupt"
    /\ last.cmd = "resolve"
    /\ pc = "handled"

\* C10: when the process exits on quit or end of input, the remote logout
\* was called last.
C10_LogoffBeforeExit ==
    pc = "exited" => EndsWith(last.trace, "logout")

\* the persons CACHE holds an object for
CachedIds == {CACHE[i].id : i \in 1..Len(CACHE)}

\* C11: FBPerson.CACHE never holds two entries with the same person id.
C11_CacheNoDuplicateIds ==
    \A i, j \in 1..Len(CACHE) : CACHE[i].id = CACHE[j].id => i = j

\* CACHE holds an entry made of an answer without a person
Personless == \E i \in 1..Len(CACHE) : CACHE[i] = NoPerson

C13_AliasElseCommandElseUnknown ==
    (last.via = "exec_" /\ ~isdigit(last.cmd)) =>
        IF last.cmd \in DOMAIN ALIASES
        THEN last.out = "call"
             /\ last.trace = <<[f |-> ALIASES[last.cmd].cmdname,
                                args |-> ALIASES[last.cmd].args \o last.arg]>>
        ELSE IF last.cmd \in COMMANDS
        THEN last.out = "call"
             /\ last.trace = <<[f |-> last.cmd, args |-> last.arg]>>
        ELSE last.out = "assert" /\ last.trace = <<>>

\* C13 amended: the same, where an alias invokes its command only if the
\* name it stands for is a registered command; an alias of anything else
\* (another alias included) fails as unknown and invokes nothing.
C13_ResolveAndCall ==
    (last.via = "exec_" /\ ~isdigit(last.cmd)) =>
        IF last.cmd \in DOMAIN ALIASES
        THEN IF ALIASES[last.cmd].cmdname \in COMMANDS
             THEN last.out = "call"
                  /\ last.trace = <<[f |-> ALIASES[last.cmd].cmdname,
                                     args |-> ALIASES[last.cmd].args \o last.arg]>>
             ELSE last.out = "assert" /\ last.trace = <<>>
        ELSE IF last.cmd \in COMMANDS
        THEN last.out = "call"
             /\ last.trace = <<[f |-> last.cmd, args |-> last.arg]>>
        ELSE last.out = "assert" /\ last.trace = <<>>

C13_Witness ==
    /\ last.via = "exec_"
    /\ last.cmd = "mycases"
    /\ last.arg = <<"a", "b">>
    /\ last.trace = <<[f |-> "search",
                       args |-> <<"assignedTo:me", "status:open", "a", "b">>]>>

\* C14: a first token made of digits invokes show with that token, whatever
\* COMMANDS and ALIASES hold under that name.
C14_NumberIsShow ==
    (last.via = "exec_" /\ isdigit(last.cmd)) =>
        /\ last.out = "call"
        /\ last.trace = <<[f |-> "show", args |-> <<last.cmd>>]>>

C14_Witness ==
    /\ last.via = "exec_"
    /\ last.cmd = "42"
    /\ "42" \in DOMAIN ALIASES
    /\ last.trace = <<[f |-> "show", args |-> <<"42">>]>>

\* C15: a logoff that succeeds leaves no current user and leaves the current
\* case, History and the last search as they were; one that fails changes
\* nothing.
C15_LogoffClearsUserOnly ==
    [][ (CommandStep /\ last'.cmd = "logoff")
        => /\ UNCHANGED <<CURRENT_CASE, HISTORY, LAST_SEARCH>>
           /\ IF last'.out = "ok" THEN CURRENT_USER' = "none"
              ELSE UNCHANGED CURRENT_USER ]_vars

C15_Witness ==
    /\ last.cmd = "logoff"
    /\ last.out = "ok"
    /\ CURRENT_USER = "none"
    /\ CURRENT_CASE.id # 0
    /\ Len(HISTORY) >= 2
    /\ LAST_SEARCH.set

\* C16: a fetch of a case by id succeeds only on an answer that counts one
\* case; on a count of zero it fails as not found, on a count above one as
\* too many, and then no case is made current, the current case and History
\* stay as they were and the next command is read.
C16_FetchNeedsExactlyOne ==
    [][ (CommandStep /\ last'.count # NoCount)
        => /\ Fetched(last') => last'.count = 1
           /\ last'.count # 1
                => /\ last'.out = "assert"
                   /\ last'.msg = IF last'.count = 0 THEN "Cannot find case"
                                  ELSE "Found too many cases"
                   /\ ~Fetched(last')
                   /\ UNCHANGED <<CURRENT_CASE, HISTORY>>
                   /\ pc' = "handled" ]_vars

C16_Witness ==
    /\ last.cmd = "show"
    /\ last.arg = 2
    /\ last.count = 2
    /\ last.msg = "Found too many cases"
    /\ CURRENT_CASE.id = 1
    /\ pc = "handled"

\* C17: no parameter with an empty value is sent with a mutating call: an
\* empty comment text and an empty tag list of the draft are left out.
C17_NoEmptyParameterSent ==
    (last.via = "editor" /\ last.cmd = "comment") =>
        \A i \in 1..Len(last.trace) :
            \A k \in DOMAIN last.trace[i].kwargs : last.trace[i].kwargs[k] # <<>>

\* a text of comment lines and empty lines only
OnlyCommentsAndBlanks(text) ==
    \A i \in 1..Len(text) : startswith_comment(text[i]) \/ text[i] = ""

CommentsLast(text) ==
    \A i, j \in 1..Len(text) :
        (startswith_comment(text[i]) /\ text[j] = "") => j < i

C18_EmptyBodyAborts ==
    [][ (CommandStep /\ last'.cmd \in {"comment", "reply", "amend", "new"}
            /\ last'.text # NoText /\ ~last'.text.body)
        => /\ last'.out = "abort"
           /\ RemoteCalls(last'.trace) = <<>>
           /\ format_exception(last'.out) = "Aborted." ]_vars

\* C18 amended: a draft whose body is empty and whose header is missing or
\* holds nothing ends the command as aborted, with no remote call and
\* "Aborted." printed; with a header that is not valid YAML the command
\* fails, logged as an error, without a remote call; with a header that
\* holds something the command is not aborted.
C18_EmptyDraftAborts ==
    [][ (CommandStep /\ last'.cmd \in {"comment", "reply", "amend", "new"}
            /\ last'.text # NoText /\ ~last'.text.body)
        => IF last'.text.meta \in {"nohdr", "null"}
           THEN /\ last'.out = "abort"
                /\ RemoteCalls(last'.trace) = <<>>
                /\ format_exception(last'.out) = "Aborted."
           ELSE IF last'.text.meta = "bad"
           THEN /\ last'.out = "yaml"
                /\ RemoteCalls(last'.trace) = <<>>
                /\ format_exception(last'.out) # "Aborted."
           ELSE last'.out # "abort" ]_vars

C18_Witness ==
    /\ last.cmd = "new"
    /\ last.text = [body |-> FALSE, meta |-> "null"]
    /\ last.out = "abort"
    /\ last.trace = <<"editor">>
    /\ pc = "handled"

DraftingCommands ==
    {"comment", "reply", "amend", "new", "close", "reactivate", "resolve",
     "reopen", "duplicate", "assign", "notify"}

\* the commands that ask before they open the editor
MaybeWriting ==
    {"close", "reactivate", "resolve", "reopen", "duplicate", "assign", "notify"}

RECURSIVE AsksBeforeEditor(_)
AsksBeforeEditor(t) ==
    IF t = <<>> \/ Head(t) = "editor" THEN 0
    ELSE (IF Head(t) = "ask" THEN 1 ELSE 0) + AsksBeforeEditor(Tail(t))

\* a drafting command that finds the file asks about it before the editor
AsksToReuse ==
    InSeq(last'.trace, "editor")
    => AsksBeforeEditor(last'.trace)
        = (IF last'.cmd \in MaybeWriting THEN 1 ELSE 0) + (IF draft THEN 1 ELSE 0)

\* C20 as claimed: after a drafting command that came to its prompt or to
\* the editor, the draft file exists exactly when the command failed with
\* something other than a user abort; a drafting command that finds the
\* file asks whether to reuse it.
C20_DraftKeptIffFailed ==
    [][ (CommandStep /\ last'.cmd \in DraftingCommands
            /\ (InSeq(last'.trace, "ask") \/ InSeq(last'.trace, "editor")))
        => /\ draft' <=> last'.out \notin {"ok", "abort"}
           /\ AsksToReuse ]_vars

\* C20 amended: after a drafting command that succeeds or is aborted by the
\* user the draft file does not exist; after one that ends otherwise the
\* file exists exactly when it existed before or the command came to open
\* it; a drafting command that finds it asks whether to reuse it.
C20_DraftKeptOnFailure ==
    [][ (CommandStep /\ last'.cmd \in DraftingCommands)
        => /\ IF last'.out \in {"ok", "abort"} THEN ~draft'
              ELSE draft' <=> (draft \/ InSeq(last'.trace, "editor"))
           /\ AsksToReuse ]_vars

C20_Witness ==
    /\ last.cmd = "comment"
    /\ last.out = "error"
    /\ last.trace = <<"ask", "editor", "edit">>
    /\ draft

\* the ids a raw answer lists
HitIds(resp) == {resp[i].id : i \in 1..Len(resp)}

\* C21: the result built from any raw answer of search or top lists every
\* case id of the answer, each once, in non-decreasing order of (priority
\* rank, project name, case id); the command makes it the last search
\* result and leaves the current case and History as they were.
C21_SearchResultSortedUnique ==
    [][ (last'.via = "search" /\ last'.out = "ok")
        => LET s == LAST_SEARCH'.shortcases
           IN /\ LAST_SEARCH'.set
              /\ \A i, j \in 1..Len(s) : s[i].id = s[j].id => i = j
              /\ {s[i].id : i \in 1..Len(s)} = HitIds(last'.arg)
              /\ \A i \in 1..Len(s) : \E k \in 1..Len(last'.arg) : s[i] = last'.arg[k]
              /\ \A i, j \in 1..Len(s) : i < j =>
                    \/ s[i].priority_id < s[j].priority_id
                    \/ /\ s[i].priority_id = s[j].priority_id
                       /\ s[i].project = "a" /\ s[j].project = "b"
                    \/ /\ s[i].priority_id = s[j].priority_id
                       /\ s[i].project = s[j].project
                       /\ s[i].id <= s[j].id
              /\ UNCHANGED <<CURRENT_CASE, HISTORY>> ]_vars

C21_Witness ==
    /\ last.via = "search"
    /\ last.out = "ok"
    /\ Len(last.arg) = 3
    /\ last.arg[1].id = last.arg[3].id
    /\ last.arg[1].priority_id > last.arg[3].priority_id
    /\ last.arg[2].project = "b"
    /\ last.arg[3].project = "a"
    /\ last.arg[2].priority_id = last.arg[3].priority_id
    /\ LAST_SEARCH.shortcases = <<last.arg[3], last.arg[2]>>
    /\ CURRENT_CASE.id = 1

\* the command ended on a remote call that failed, or on a keyboard interrupt
RemoteFailed(l) ==
    \/ l.out = "interrupt"
    \/ l.out = "error" /\ l.trace # <<>> /\ l.trace[Len(l.trace)] \in Remote

\* C22 as claimed: a command in which a remote call fails, or which is
\* interrupted, leaves the current case, the current user, the last search
\* and History as they were.
C22_FailedCommandChangesNothing ==
    [][ (CommandStep /\ RemoteFailed(last')) => SessionUnchanged ]_vars

\* C22 amended: a command in which a remote call fails, or which is
\* interrupted, leaves the current user and the last search as they were;
\* it leaves the current case and History as they were unless a fetch by id
\* had already answered in it, and then the fetched case is the current
\* case and first in History, whatever failed afterwards.
C22_FailedCommandKeepsFetch ==
    [][ (CommandStep /\ RemoteFailed(last'))
        => /\ UNCHANGED <<CURRENT_USER, LAST_SEARCH>>
           /\ IF Fetched(last')
              THEN /\ CURRENT_CASE'.id = FetchTarget(last'.cmd, last'.arg)
                   /\ HISTORY' = push(HISTORY, CURRENT_CASE'.id)
              ELSE UNCHANGED <<CURRENT_CASE, HISTORY>> ]_vars

C22_Witness ==
    /\ last.cmd = "show"
    /\ last.arg = 2
    /\ last.out = "interrupt"
    /\ last.trace = <<"search", "set_current", "view">>
    /\ CURRENT_CASE.id = 2
    /\ HISTORY = <<2, 1>>

\* the lines of a text after its first separator line, all of them if it
\* has none: the part of a draft its body is taken from
AfterHeader(text) ==
    IF \E i \in 1..Len(text) : strip(text[i]) = "---"
    THEN LET sep == CHOOSE i \in 1..Len(text) :
                      /\ strip(text[i]) = "---"
                      /\ \A j \in 1..(i - 1) : strip(text[j]) # "---"
         IN [k \in 1..(Len(text) - sep) |-> strip(text[sep + k])]
    ELSE text

\* how many of the lines are comment lines
Comments(lines) == Cardinality({i \in 1..Len(lines) : lines[i] = "# c"})

C24_BadHeaderReportedAsSuch ==
    [][ (CommandStep /\ last'.cmd \in DraftingCommands
            /\ last'.text # NoText /\ last'.text.meta = "bad")
        => /\ last'.out = "yaml"
           /\ \A i \in 1..Len(last'.trace) :
                last'.trace[i] \notin Mutations \cup {"new"}
           /\ format_exception(last'.out)
                = "ERROR in case header: must be valid YAML"
           /\ format_exception(last'.out)
                \notin {format_exception("abort"), format_exception("error"),
                        format_exception("assert")}
           /\ pc' = "handled" ]_vars

C24_Witness ==
    /\ last.cmd = "resolve"
    /\ last.text = [body |-> TRUE, meta |-> "bad"]
    /\ last.out = "yaml"
    /\ last.trace = <<"ask", "editor">>
    /\ pc = "handled"

\* the links an event list should give: one per URL and anchor of each event
Expected(events) ==
    {[event |-> e, kind |-> kd, k |-> k] :
        e \in 1..Len(events), kd \in {"url", "inline"}, k \in 1..MaxUrls + 1}
    \cap {l \in [event : 1..Len(events), kind : {"url", "inline"},
                  k : 1..MaxUrls + 1] :
            l.k <= (IF l.kind = "url" THEN events[l.event].urls
                    ELSE events[l.event].inline_urls)}

\* link a comes before link b: by event, then plain URLs before anchors,
\* then by place in the event
Before(a, b) ==
    \/ a.event < b.event
    \/ a.event = b.event /\ a.kind = "url" /\ b.kind = "inline"
    \/ a.event = b.event /\ a.kind = b.kind /\ a.k < b.k

\* C25: the links of a case are one per URL and anchor of its events,
\* numbered 0..n-1 in list order, which is event order with the plain URLs
\* of an event before its anchors; `link N` browses the link numbered N
\* when 0 <= N < n and fails, browsing nothing, otherwise.
C25_LinksIndexedInOrder ==
    (last.via = "links" /\ CURRENT_CASE.id # 0) =>
        LET ls == FBCase_links(CURRENT_CASE.events)
            n == Len(ls)
        IN /\ last.cmd = "links" =>
                /\ last.out = "ok"
                /\ last.trace = ls
                /\ \A i \in 1..n : ls[i].id = i - 1
                /\ {[event |-> ls[i].event, kind |-> ls[i].kind, k |-> ls[i].k] :
                        i \in 1..n} = Expected(CURRENT_CASE.events)
                /\ n = Cardinality(Expected(CURRENT_CASE.events))
                /\ \A i, j \in 1..n : i < j => Before(ls[i], ls[j])
           /\ last.cmd = "link" =>
                IF last.arg \in 0..(n - 1)
                THEN /\ last.out = "ok"
                     /\ Len(last.trace) = 1
                     /\ last.trace[1].id = last.arg
                     /\ \A i \in 1..n : ls[i].id = last.arg => ls[i] = last.trace[1]
                ELSE last.out = "assert" /\ last.trace = <<>>

C25_Witness ==
    /\ last.via = "links"
    /\ last.cmd = "link"
    /\ last.arg = 3
    /\ CURRENT_CASE.id # 0
    /\ Len(CURRENT_CASE.events) = 2
    /\ CURRENT_CASE.events[1] = [urls |-> 1, inline_urls |-> 2]
    /\ last.trace = <<[id |-> 3, event |-> 2, kind |-> "url", k |-> 1]>>

\* C26: a current case is set exactly when History is not empty, and then
\* the first entry of History is the current case.
C26_CurrentCaseHeadsHistory ==
    /\ CURRENT_CASE.id # 0 <=> HISTORY # <<>>
    /\ CURRENT_CASE.id # 0 => Head(HISTORY) = CURRENT_CASE.id

C26_Witness ==
    /\ CURRENT_CASE.id = 2
    /\ HISTORY = <<2, 3, 1>>
    /\ last.cmd = "resolve"
    /\ last.out = "ok"

\* a History with its first two entries exchanged
SecondToFront(h) == <<h[2], h[1]>> \o SubSeq(h, 3, Len(h))

\* C27: on a History of fewer than two entries `back` calls nothing remote
\* and changes nothing; on a longer one, once its fetch has answered, the
\* second entry is the current case and stands first in History, the
\* former first entry second and the rest as it was, so that the same step
\* taken again gives back the History, and the current case id, it started
\* from.
C27_BackSwapsFirstTwo ==
    [][ (CommandStep /\ last'.cmd = "back")
        => IF Len(HISTORY) < 2
           THEN /\ last'.trace = <<>>
                /\ last'.out = "ok"
                /\ SessionUnchanged
                /\ UNCHANGED draft
           ELSE /\ last'.trace # <<>>
                /\ last'.trace[1] = "search"
                /\ Fetched(last')
                    => /\ CURRENT_CASE'.id = HISTORY[2]
                       /\ HISTORY' = SecondToFront(HISTORY)
                       /\ SecondToFront(HISTORY') = HISTORY
                       /\ HISTORY'[2] = CURRENT_CASE.id
                /\ ~Fetched(last') => UNCHANGED <<CURRENT_CASE, HISTORY>> ]_vars

C27_Witness ==
    /\ last.cmd = "back"
    /\ last.out = "ok"
    /\ Fetched(last)
    /\ HISTORY = <<2, 3, 1>>
    /\ CURRENT_CASE.id = 2

\* C28: every entry of CACHE wraps a person the tracker returned, and a
\* lookup fails only in its remote call.
C28_CacheHoldsOnlyPersons ==
    /\ \A i \in 1..Len(CACHE) : \E p \in PersonIds : CACHE[i] = Person(p)
    /\ (last.via = "persons" /\ last.out = "error")
        => last.trace \in {<<"viewPerson">>, <<"listPeople">>}

\* how many times the command prompted the user
Asks(t) == Len(SelectSeq(t, LAMBDA x : x = "ask"))

\* the command asked whether to reuse the file: a prompt beyond the
\* "Add a comment?" of the commands that ask it
ReuseAsked(l) == Asks(l.trace) > (IF l.cmd \in MaybeWriting THEN 1 ELSE 0)

\* C29: no command removes a draft file it found without having asked the
\* user whether to reuse it; a command whose "Add a comment?" is declined
\* leaves the file in place.
C29_DraftRemovedOnlyAfterAsking ==
    [][ (CommandStep /\ draft /\ ~draft') => ReuseAsked(last') ]_vars

\* C30: the meta of a draft whose header parses is a mapping, the empty one
\* for a text without separator and for a header that is empty or holds
\* only comment lines, so the parameters of a comment are built from such
\* a draft without an error.
C30_ParsedMetaIsMapping ==
    (last.via = "editor" /\ last.cmd = "comment"
        /\ Text_meta(last.arg) # "bad")
    => /\ Text_meta(last.arg) \in {"nohdr", "dict", "title"}
       /\ last.out \in {"ok", "abort"}

====
